---- MODULE Spec2Model ----
(***************************************************************************)
(* Model of the two catalog scripts of learnedgeek.com:                    *)
(*   sort_posts.py : read posts.json, append the new posts whose slug is   *)
(*                   not present yet, sort by date (newest first), write.  *)
(*   sync_posts.py : download the remote posts.json and overwrite the      *)
(*                   local one.                                            *)
(* The persisted document is the variable file; the two scripts run one    *)
(* at a time and pc is the position of the running script.  The file       *)
(* system itself is taken to be reliable (open/read/write do not fail).    *)
(***************************************************************************)
EXTENDS Integers, Sequences, FiniteSets, TLC

VARIABLES
    file,          \* LearnedGeek/Content/posts.json as persisted
    new_posts,     \* the literal list of sort_posts.py
    pc,            \* position of the running script
    data,          \* sort_posts.py: the document held in memory
    idx,           \* sort_posts.py: position of the for loop in new_posts
    added_count,   \* sort_posts.py: added_count
    response,      \* sync_posts.py: outcome of the HTTP request
    remote_posts,  \* sync_posts.py: remote_posts
    exit_code,     \* exit status of the run ("running" while it runs)
    before,        \* history: file as it was when the run started
    opened,        \* history: the run has opened the file for writing
    prev_out,      \* history: output of the last merge, still on disk
    rerun          \* history: the run started on the output of a merge

vars == <<file, new_posts, pc, data, idx, added_count, response,
          remote_posts, exit_code, before, opened, prev_out, rerun>>

\* Bounds of the model
MaxExisting == 2   \* records of the catalogs the model starts from
MaxCand == 2       \* records of new_posts
MaxRemote == 1     \* records of the catalogs the remote serves

(***************************************************************************)
(* datetime.strptime(x['date'], '%Y-%m-%d').  A date is the sequence of    *)
(* its characters.  %Y is four digits, %m and %d one or two digits, the    *)
(* whole string must be consumed, and the datetime constructor rejects     *)
(* year 0 and a day outside the month.  The result is a number ordered as  *)
(* the datetime values are, or NoDate where strptime raises ValueError.    *)
(***************************************************************************)
NoDate == 0 - 1

IsDigit(c) == c \in {"0", "1", "2", "3", "4", "5", "6", "7", "8", "9"}

DigitVal(c) ==
    CASE c = "0" -> 0 [] c = "1" -> 1 [] c = "2" -> 2 [] c = "3" -> 3
      [] c = "4" -> 4 [] c = "5" -> 5 [] c = "6" -> 6 [] c = "7" -> 7
      [] c = "8" -> 8 [] c = "9" -> 9

RECURSIVE SplitDash(_)
SplitDash(s) ==
    IF s = <<>> THEN << <<>> >>
    ELSE LET rest == SplitDash(Tail(s)) IN
         IF Head(s) = "-" THEN << <<>> >> \o rest
         ELSE << <<Head(s)>> \o Head(rest) >> \o Tail(rest)

AllDigits(p) == \A i \in 1..Len(p) : IsDigit(p[i])

RECURSIVE NumVal(_)
NumVal(p) ==
    IF p = <<>> THEN 0
    ELSE 10 * NumVal(SubSeq(p, 1, Len(p) - 1)) + DigitVal(p[Len(p)])

IsLeap(y) == (y % 4 = 0 /\ y % 100 # 0) \/ y % 400 = 0

DaysInMonth(y, m) ==
    IF m = 2 THEN (IF IsLeap(y) THEN 29 ELSE 28)
    ELSE IF m \in {4, 6, 9, 11} THEN 30 ELSE 31

strptime(s) ==
    LET parts == SplitDash(s) IN
    IF Len(parts) # 3 THEN NoDate
    ELSE LET yy == parts[1]
             mm == parts[2]
             dd == parts[3]
         IN  IF ~(Len(yy) = 4 /\ AllDigits(yy)) THEN NoDate
             ELSE IF ~(Len(mm) \in {1, 2} /\ AllDigits(mm)) THEN NoDate
             ELSE IF ~(Len(dd) \in {1, 2} /\ AllDigits(dd)) THEN NoDate
             ELSE LET y == NumVal(yy)
                      m == NumVal(mm)
                      d == NumVal(dd)
                  IN  IF y < 1 \/ m < 1 \/ m > 12 \/ d < 1
                         \/ d > DaysInMonth(y, m)
                      THEN NoDate
                      ELSE y * 10000 + m * 100 + d

(***************************************************************************)
(* Post records (slug, title, date; the other fields are passed through    *)
(* like title) and the documents a posts.json can hold.                    *)
(***************************************************************************)
Jan1 == <<"2", "0", "2", "6", "-", "0", "1", "-", "0", "1">>
Jan1Short == <<"2", "0", "2", "6", "-", "1", "-", "1">>
Feb1 == <<"2", "0", "2", "6", "-", "0", "2", "-", "0", "1">>
Feb30 == <<"2", "0", "2", "6", "-", "0", "2", "-", "3", "0">>
Far == <<"2", "0", "9", "9", "-", "0", "1", "-", "0", "1">>
NotADate == <<"n", "o", "t", "-", "a", "-", "d", "a", "t", "e">>

PostPool ==
    { [slug |-> "a", title |-> "t",   date |-> Jan1],
      [slug |-> "a", title |-> "dup", date |-> Far],
      [slug |-> "b", title |-> "t",   date |-> Jan1Short],
      [slug |-> "b", title |-> "dup", date |-> NotADate],
      [slug |-> "c", title |-> "t",   date |-> Feb1],
      [slug |-> "c", title |-> "t",   date |-> Feb30] }

SeqsUpTo(S, n) == UNION { [1..k -> S] : k \in 0..n }

Slugs(posts) == { posts[i].slug : i \in 1..Len(posts) }

UniqueSlugs(posts) == Cardinality(Slugs(posts)) = Len(posts)

Catalog(posts) == [shape |-> "catalog", posts |-> posts]

\* Documents that are valid JSON but not a catalog: an object without
\* 'posts', a value that is not an object, an object whose 'posts' is text.
OtherDocs ==
    { [shape |-> s, posts |-> <<>>] : s \in {"no_posts", "not_object", "posts_text"} }

NoDoc == [shape |-> "none", posts |-> <<>>]

LocalCatalogs ==
    { Catalog(p) : p \in { q \in SeqsUpTo(PostPool, MaxExisting) : UniqueSlugs(q) } }

RemoteDocs ==
    { Catalog(p) : p \in { q \in SeqsUpTo(PostPool, MaxRemote) : UniqueSlugs(q) } }
      \cup OtherDocs

Responses ==
    { [status |-> s, doc |-> NoDoc] : s \in {"conn_error", "http_error", "bad_json"} }
      \cup { [status |-> "ok", doc |-> d] : d \in RemoteDocs }

NoResponse == [status |-> "none", doc |-> NoDoc]

Ended == {"merge_done", "merge_failed", "sync_done", "sync_failed"}

Init ==
    /\ file \in LocalCatalogs
    /\ new_posts \in SeqsUpTo(PostPool, MaxCand)
    /\ pc = "idle"
    /\ data = NoDoc
    /\ idx = 1
    /\ added_count = 0
    /\ response = NoResponse
    /\ remote_posts = NoDoc
    /\ exit_code = "running"
    /\ before = file
    /\ opened = FALSE
    /\ prev_out = NoDoc
    /\ rerun = FALSE

(***************************************************************************)
(* sort_posts.py                                                           *)
(***************************************************************************)

\* any(p['slug'] == post['slug'] for p in data['posts'])
SlugExistsOnDisk(posts, slug) ==
    \E i \in 1..Len(file.posts) : file.posts[i].slug = slug

SlugExists(posts, slug) ==
    \E i \in 1..Len(posts) : posts[i].slug = slug

\* the body of the for loop: data['posts'] after one candidate
AddPostOverwrite(posts, post) ==
    IF ~SlugExists(posts, post.slug) THEN Append(posts, post)
    ELSE [i \in 1..Len(posts) |->
            IF posts[i].slug = post.slug THEN post ELSE posts[i]]

AddPost(posts, post) ==
    IF ~SlugExists(posts, post.slug) THEN Append(posts, post) ELSE posts

\* the body of the for loop: added_count after one candidate
CountEvery(posts, post, n) == n + 1

CountAfter(posts, post, n) ==
    IF ~SlugExists(posts, post.slug) THEN n + 1 ELSE n

\* the key function raises ValueError for some record
KeyNeverRaises(posts) == FALSE

KeyRaises(posts) ==
    \E i \in 1..Len(posts) : strptime(posts[i].date) = NoDate

\* list.sort(key=..., reverse=True): descending by key, and stable, records
\* with equal keys keep the order they had.
RECURSIVE InsertDesc(_, _)
InsertDesc(sorted, x) ==
    IF sorted = <<>> THEN <<x>>
    ELSE IF strptime(Head(sorted).date) >= strptime(x.date)
         THEN <<Head(sorted)>> \o InsertDesc(Tail(sorted), x)
         ELSE <<x>> \o sorted

RECURSIVE InsertDescUnstable(_, _)
InsertDescUnstable(sorted, x) ==
    IF sorted = <<>> THEN <<x>>
    ELSE IF strptime(Head(sorted).date) > strptime(x.date)
         THEN <<Head(sorted)>> \o InsertDescUnstable(Tail(sorted), x)
         ELSE <<x>> \o sorted

RECURSIVE InsertAsc(_, _)
InsertAsc(sorted, x) ==
    IF sorted = <<>> THEN <<x>>
    ELSE IF strptime(Head(sorted).date) <= strptime(x.date)
         THEN <<Head(sorted)>> \o InsertAsc(Tail(sorted), x)
         ELSE <<x>> \o sorted

RECURSIVE SortUnstable(_)
SortUnstable(posts) ==
    IF posts = <<>> THEN <<>>
    ELSE InsertDescUnstable(SortUnstable(SubSeq(posts, 1, Len(posts) - 1)),
                            posts[Len(posts)])

RECURSIVE SortAscending(_)
SortAscending(posts) ==
    IF posts = <<>> THEN <<>>
    ELSE InsertAsc(SortAscending(SubSeq(posts, 1, Len(posts) - 1)),
                   posts[Len(posts)])

RECURSIVE SortPosts(_)
SortPosts(posts) ==
    IF posts = <<>> THEN <<>>
    ELSE InsertDesc(SortPosts(SubSeq(posts, 1, Len(posts) - 1)),
                    posts[Len(posts)])

\* lines 8-9 and 115: read the document, added_count = 0
MergeRead ==
    /\ pc = "idle"
    /\ pc' = "merge_loop"
    /\ data' = file
    /\ idx' = 1
    /\ added_count' = 0
    /\ response' = NoResponse
    /\ remote_posts' = NoDoc
    /\ exit_code' = "running"
    /\ before' = file
    /\ opened' = FALSE
    /\ rerun' = (prev_out # NoDoc /\ prev_out = file)
    /\ UNCHANGED <<file, new_posts, prev_out>>

\* the run dies with a traceback; nothing has been written
MergeCrash ==
    /\ pc' = "merge_failed"
    /\ exit_code' = "1"
    /\ UNCHANGED <<file, new_posts, data, idx, added_count, response,
                   remote_posts, before, opened, prev_out, rerun>>

\* lines 116-120: one iteration of the for loop
MergeLoop ==
    /\ pc = "merge_loop"
    /\ idx <= Len(new_posts)
    /\ IF data.shape # "catalog"
       THEN MergeCrash
       ELSE /\ data' = Catalog(AddPost(data.posts, new_posts[idx]))
            /\ added_count' = CountAfter(data.posts, new_posts[idx], added_count)
            /\ idx' = idx + 1
            /\ UNCHANGED <<file, new_posts, pc, response, remote_posts,
                           exit_code, before, opened, prev_out, rerun>>

\* line 123 with the file opened around it
MergeSortInsideOpen ==
    /\ pc = "merge_loop"
    /\ idx > Len(new_posts)
    /\ IF data.shape # "catalog" \/ KeyRaises(data.posts)
       THEN /\ pc' = "merge_failed"
            /\ exit_code' = "1"
            /\ file' = [shape |-> "truncated", posts |-> <<>>]
            /\ opened' = TRUE
            /\ UNCHANGED <<new_posts, data, idx, added_count, response,
                           remote_posts, before, prev_out, rerun>>
       ELSE /\ data' = Catalog(SortPosts(data.posts))
            /\ pc' = "merge_write"
            /\ UNCHANGED <<file, new_posts, idx, added_count, response,
                           remote_posts, exit_code, before, opened,
                           prev_out, rerun>>

\* line 123: the for loop is over, sort by date (newest first)
MergeSort ==
    /\ pc = "merge_loop"
    /\ idx > Len(new_posts)
    /\ IF data.shape # "catalog" \/ KeyRaises(data.posts)
       THEN MergeCrash
       ELSE /\ data' = Catalog(SortPosts(data.posts))
            /\ pc' = "merge_write"
            /\ UNCHANGED <<file, new_posts, idx, added_count, response,
                           remote_posts, exit_code, before, opened,
                           prev_out, rerun>>

\* lines 126-129: write back, report, exit
MergeWrite ==
    /\ pc = "merge_write"
    /\ file' = data
    /\ opened' = TRUE
    /\ prev_out' = data
    /\ pc' = "merge_done"
    /\ exit_code' = "0"
    /\ UNCHANGED <<new_posts, data, idx, added_count, response,
                   remote_posts, before, rerun>>

(***************************************************************************)
(* sync_posts.py                                                           *)
(***************************************************************************)

\* lines 15-17: requests.get, raise_for_status or response.json raises
FetchRaisesNoStatusCheck(r) == r.status \in {"conn_error", "bad_json"}

FetchRaises(r) == r.status \in {"conn_error", "http_error", "bad_json"}

\* line 23: len(remote_posts['posts']) evaluates without raising
HasPostsLen(doc) == doc.shape \in {"catalog", "posts_text"}

\* lines 11-17 with except clauses that do not exit
SyncFetchSwallows ==
    /\ pc = "idle"
    /\ \E r \in Responses :
        /\ response' = r
        /\ IF FetchRaises(r)
           THEN /\ pc' = "sync_done"
                /\ exit_code' = "0"
                /\ remote_posts' = NoDoc
           ELSE /\ pc' = "sync_write"
                /\ exit_code' = "running"
                /\ remote_posts' = r.doc
    /\ data' = NoDoc
    /\ idx' = 1
    /\ added_count' = 0
    /\ before' = file
    /\ opened' = FALSE
    /\ rerun' = FALSE
    /\ UNCHANGED <<file, new_posts, prev_out>>

\* lines 11-17 and 26-34: download and parse the remote document; an
\* exception is reported and the run exits with status 1
SyncFetch ==
    /\ pc = "idle"
    /\ \E r \in Responses :
        /\ response' = r
        /\ IF FetchRaises(r)
           THEN /\ pc' = "sync_failed"
                /\ exit_code' = "1"
                /\ remote_posts' = NoDoc
           ELSE /\ pc' = "sync_write"
                /\ exit_code' = "running"
                /\ remote_posts' = r.doc
    /\ data' = NoDoc
    /\ idx' = 1
    /\ added_count' = 0
    /\ before' = file
    /\ opened' = FALSE
    /\ rerun' = FALSE
    /\ UNCHANGED <<file, new_posts, prev_out>>

\* lines 20-21: overwrite local with remote
SyncWrite ==
    /\ pc = "sync_write"
    /\ file' = remote_posts
    /\ opened' = TRUE
    /\ prev_out' = NoDoc
    /\ pc' = "sync_report"
    /\ UNCHANGED <<new_posts, data, idx, added_count, response,
                   remote_posts, exit_code, before, rerun>>

\* lines 23-24 and 32-34: report the number of posts; an exception of the
\* report is caught by the last except clause
SyncReport ==
    /\ pc = "sync_report"
    /\ IF HasPostsLen(remote_posts)
       THEN pc' = "sync_done" /\ exit_code' = "0"
       ELSE pc' = "sync_failed" /\ exit_code' = "1"
    /\ UNCHANGED <<file, new_posts, data, idx, added_count, response,
                   remote_posts, before, opened, prev_out, rerun>>

\* the process of the script is gone; the file and the scripts remain
ProcessExit ==
    /\ pc \in Ended
    /\ pc' = "idle"
    /\ data' = NoDoc
    /\ idx' = 1
    /\ added_count' = 0
    /\ response' = NoResponse
    /\ remote_posts' = NoDoc
    /\ exit_code' = "running"
    /\ before' = file
    /\ opened' = FALSE
    /\ rerun' = FALSE
    /\ UNCHANGED <<file, new_posts, prev_out>>

Next ==
    \/ MergeRead
    \/ MergeLoop
    \/ MergeSort
    \/ MergeWrite
    \/ SyncFetch
    \/ SyncWrite
    \/ SyncReport
    \/ ProcessExit

Spec == Init /\ [][Next]_vars

TypeOK ==
    /\ pc \in Ended \cup {"idle", "merge_loop", "merge_write", "sync_write", "sync_report"}
    /\ exit_code \in {"running", "0", "1"}
    /\ idx \in 1..(Len(new_posts) + 1)
    /\ added_count \in 0..Len(new_posts)

(***************************************************************************)
(* Properties                                                              *)
(***************************************************************************)
Records(posts) == { posts[i] : i \in 1..Len(posts) }

Parses(post) == strptime(post.date) # NoDate

SortedByDate(posts) ==
    \A i \in 1..(Len(posts) - 1) :
        /\ Parses(posts[i])
        /\ Parses(posts[i + 1])
        /\ strptime(posts[i].date) >= strptime(posts[i + 1].date)

\* the candidates the loop appends: first occurrence of a slug that the
\* catalog read from disk does not hold
Accepted(i) ==
    /\ new_posts[i].slug \notin Slugs(before.posts)
    /\ \A k \in 1..(i - 1) : new_posts[k].slug # new_posts[i].slug

SyncRunning == pc \in {"sync_write", "sync_report", "sync_done", "sync_failed"}

SyncEnded == pc \in {"sync_done", "sync_failed"}

\* C1: when the catalog read from disk has pairwise distinct slugs, the
\* catalog a merge writes has as many distinct slugs as records, whatever
\* the candidates repeat.
C1_NoDuplicateSlugs ==
    (pc = "merge_done" /\ UniqueSlugs(before.posts))
        => Cardinality(Slugs(file.posts)) = Len(file.posts)

C1_Witness ==
    /\ pc = "merge_done"
    /\ Len(before.posts) > 0
    /\ \E i, j \in 1..Len(new_posts) : i < j /\ new_posts[i] = new_posts[j]
                                       /\ Accepted(i)

\* C2: the catalog a successful merge writes is ordered by date, newest
\* first, over all its records: each record's date is on or after the date
\* of the record that follows it.
C2_SortedDescending ==
    pc = "merge_done" => SortedByDate(file.posts)

C2_Witness ==
    /\ pc = "merge_done"
    /\ ~SortedByDate(before.posts)
    /\ added_count > 0
    /\ Len(file.posts) >= 3

\* C3: every record of the catalog read from disk is, with all its fields,
\* in the document the merge holds in memory and in the catalog it writes;
\* a candidate with the slug of an existing record replaces nothing.
C3_ExistingUnchanged ==
    /\ (pc \in {"merge_loop", "merge_write", "merge_done", "merge_failed"}
            /\ data.shape = "catalog")
         => Records(before.posts) \subseteq Records(data.posts)
    /\ pc = "merge_done" => Records(before.posts) \subseteq Records(file.posts)

C3_Witness ==
    /\ pc = "merge_done"
    /\ \E i \in 1..Len(new_posts), j \in 1..Len(before.posts) :
          /\ new_posts[i].slug = before.posts[j].slug
          /\ new_posts[i] # before.posts[j]
          /\ strptime(new_posts[i].date) > strptime(before.posts[j].date)
          /\ before.posts[j] \in Records(file.posts)

\* C4: a merge that starts from the catalog the previous merge wrote, with
\* the same candidates, adds nothing and writes that catalog back exactly,
\* records of equal date in the same order.
C4_Idempotent ==
    (pc = "merge_done" /\ rerun) => (added_count = 0 /\ file = before)

C4_Witness ==
    /\ pc = "merge_done"
    /\ rerun
    /\ Len(new_posts) > 0
    /\ \E i \in 1..(Len(file.posts) - 1) :
          strptime(file.posts[i].date) = strptime(file.posts[i + 1].date)

\* C5: added_count is the number of distinct candidate slugs that the
\* catalog read from disk does not hold, the written catalog is that much
\* longer, and of a repeated candidate the first occurrence is the one kept.
C5_CountAccurate ==
    pc = "merge_done" =>
        /\ added_count = Cardinality(Slugs(new_posts) \ Slugs(before.posts))
        /\ Len(file.posts) = Len(before.posts) + added_count
        /\ \A i \in 1..Len(new_posts) :
              Accepted(i) => new_posts[i] \in Records(file.posts)

C5_Witness ==
    /\ pc = "merge_done"
    /\ added_count = 1
    /\ Len(new_posts) = 2
    /\ \/ /\ new_posts[1].slug = new_posts[2].slug
          /\ new_posts[1] # new_posts[2]
          /\ new_posts[1] \in Records(file.posts)
       \/ /\ new_posts[1].slug \in Slugs(before.posts)
          /\ new_posts[2].slug \notin Slugs(before.posts)

\* C6 as claimed: a merge completes only if the date of every record of the
\* catalog read from disk and of every candidate parses.
C6_AnyBadDateFails ==
    pc = "merge_done" =>
        /\ \A i \in 1..Len(before.posts) : Parses(before.posts[i])
        /\ \A i \in 1..Len(new_posts) : Parses(new_posts[i])

\* C6 as amended: a merge reaches the write and completes only if the date
\* of every record of the catalog read from disk and of every candidate it
\* appends parses; a candidate skipped as a duplicate is never parsed.
C6_BadDateInWorkingListFails ==
    pc \in {"merge_write", "merge_done"} =>
        /\ \A i \in 1..Len(before.posts) : Parses(before.posts[i])
        /\ \A i \in 1..Len(new_posts) : Accepted(i) => Parses(new_posts[i])

C6_Witness ==
    /\ pc = "merge_failed"
    /\ exit_code = "1"
    /\ \A i \in 1..Len(before.posts) : Parses(before.posts[i])
    /\ \E i \in 1..Len(new_posts) : Accepted(i) /\ ~Parses(new_posts[i])

\* C7: a merge that fails leaves the persisted document as it was when the
\* run started and has not opened it for writing, also when candidates were
\* already appended in memory.
C7_FailedMergeWritesNothing ==
    pc = "merge_failed" => (file = before /\ ~opened)

C7_Witness ==
    /\ pc = "merge_failed"
    /\ data.shape = "catalog"
    /\ added_count > 0
    /\ Len(data.posts) > Len(file.posts)
    /\ \E i \in 1..Len(data.posts) : ~Parses(data.posts[i])

\* C8 as claimed: a sync whose remote document is not valid JSON, or is
\* valid JSON without a 'posts' list, ends in failure with the local
\* document as it was when the run started.
C8_MalformedRemoteLeavesLocal ==
    (SyncEnded /\ (response.status = "bad_json"
                     \/ (response.status = "ok" /\ response.doc.shape # "catalog")))
        => (pc = "sync_failed" /\ file = before)

\* C9: a sync whose request fails, by a transport error or an HTTP error
\* status, never opens the local document for writing, leaves it as it was
\* and exits with status 1.
C9_FetchFailureLeavesLocal ==
    (SyncRunning /\ response.status \in {"conn_error", "http_error"})
        => /\ pc = "sync_failed"
           /\ exit_code = "1"
           /\ ~opened
           /\ file = before

C9_Witness ==
    /\ pc = "sync_failed"
    /\ response.status = "http_error"
    /\ Len(file.posts) > 0

\* C10: a sync run ends either with exit status 0 and the local document
\* equal to the parsed remote document, or with exit status 1; it never
\* ends with status 0 and a local document that differs from the remote.
C10_ReplaceOrFail ==
    SyncEnded =>
        \/ /\ pc = "sync_done"
           /\ exit_code = "0"
           /\ response.status = "ok"
           /\ file = response.doc
        \/ /\ pc = "sync_failed"
           /\ exit_code = "1"

C10_Witness ==
    /\ pc = "sync_done"
    /\ exit_code = "0"
    /\ Len(before.posts) > Len(file.posts)
    /\ Len(before.posts) > Len(new_posts)
    /\ file = response.doc
    /\ file # before

====
